---- MODULE Spec2Model ----
(***************************************************************************)
(* Model of the org-chart application.                                     *)
(*                                                                         *)
(* Two components are modelled, each with its own specification:           *)
(*                                                                         *)
(*  SpecLayout - the hand-rolled two-pass tree layout of OrgChart.tsx.old  *)
(*               (layoutTree, positionTree, and the fetch handler that     *)
(*               runs them).                                               *)
(*  SpecFlow   - the current OrgChart component: the expanded map,         *)
(*               toggleNode, buildFlowData and the relayout effect that    *)
(*               feeds the module-level dagre graph of dagreLayout.ts.     *)
(*                                                                         *)
(* An input tree (OrgNode) is represented by its parent array: node ids    *)
(* are 1..n, node 1 is the root, data[i] is the id of the parent of i      *)
(* (0 for the root) and the children of a node are ordered by id.  Every   *)
(* ordered tree shape with at most MaxNodes nodes has such a numbering.    *)
(***************************************************************************)
EXTENDS Integers, Sequences, FiniteSets, TLC

\* ---------------------------------------------------------------- bounds
MaxNodes == 6

\* ------------------------------------------------------------- constants
NODE_WIDTH == 240
NODE_HEIGHT == 60
HORIZONTAL_SPACING == 40
VERTICAL_SPACING == 100

\* The anchor the component passes (screenCenterX, 50) and the origin.
OffsetXs == {0, 500}
OffsetYs == {0, 50}

\* "undefined" / null references
Undefined == 0
NoTree == << >>

VARIABLES
    pc,          \* position of the fetch handler of the old component
    jsonData,    \* the tree handed to layoutTree
    heap,        \* the PositionedNode objects, in creation order
    layouted,    \* reference (index into heap) of the root PositionedNode
    anchor,      \* the <<offsetX, offsetY>> passed to positionTree
    rootLayout,  \* React state rootLayout (a reference, or Undefined)
    rootData,    \* React state rootData of the current component
    expandedMap, \* React state expandedMap: id -> BOOLEAN (partial)
    nodes,       \* React state nodes (sequence of flow nodes)
    edges,       \* React state edges (sequence of flow edges)
    dagreGraph   \* the module-level dagre graph: node ids and edges

layoutVars == <<pc, jsonData, heap, layouted, anchor, rootLayout>>
flowVars == <<rootData, expandedMap, nodes, edges, dagreGraph>>
vars == <<pc, jsonData, heap, layouted, anchor, rootLayout,
          rootData, expandedMap, nodes, edges, dagreGraph>>

\* ------------------------------------------------------------ input trees
RECURSIVE ParentArrays(_)
ParentArrays(n) ==
    IF n = 1
    THEN {<< 0 >>}
    ELSE {Append(p, k) : p \in ParentArrays(n - 1), k \in 1..(n - 1)}

Trees == UNION {ParentArrays(n) : n \in 1..MaxNodes}

\* node.children, in order
Children(data, node) ==
    LET S == {i \in DOMAIN data : data[i] = node}
    IN  [k \in 1..Cardinality(S) |->
            CHOOSE i \in S : Cardinality({j \in S : j < i}) = k - 1]

Max(a, b) == IF a >= b THEN a ELSE b

\* ------------------------------------------------------------- layoutTree
\* The PositionedNode returned for a leaf.
LeafNode(node) ==
    [node |-> node, x |-> 0, y |-> 0, width |-> NODE_WIDTH,
     children |-> << >>, parent |-> Undefined]

\* One iteration of the forEach over childLayouts: the running total after
\* child i (of len) of width w has been placed at the previous total.
AdvanceNoSpacing(totalWidth, w, i, len) == totalWidth + w

Advance(totalWidth, w, i, len) ==
    IF i < len
    THEN totalWidth + w + HORIZONTAL_SPACING
    ELSE totalWidth + w

\* childLayouts.forEach: sets c.x of every child; returns the heap and the
\* total width.  refs are the references of the child layouts.
RECURSIVE PlaceChildren(_, _, _, _)
PlaceChildren(h, refs, i, totalWidth) ==
    IF i > Len(refs)
    THEN [heap |-> h, totalWidth |-> totalWidth]
    ELSE LET c == refs[i]
             h2 == [h EXCEPT ![c].x = totalWidth]
         IN  PlaceChildren(h2, refs, i + 1,
                           Advance(totalWidth, h[c].width, i, Len(refs)))

\* totalWidth is a sum of multiples of 40, so the halves are exact.
ChildrenGroupCenter(firstX, totalWidth) ==
    firstX + (totalWidth - firstX) \div 2

ParentX(firstX, totalWidth) ==
    ChildrenGroupCenter(firstX, totalWidth) - NODE_WIDTH \div 2

ParentWidthFixed(totalWidth) == NODE_WIDTH

ParentWidth(totalWidth) == Max(NODE_WIDTH, totalWidth)

RECURSIVE LayoutTree(_, _, _)
RECURSIVE MapLayout(_, _, _, _, _)

\* node.children.map(layoutTree): lays the children out one after the
\* other, each call allocating its PositionedNodes on the heap.
MapLayout(data, kids, i, h, refs) ==
    IF i > Len(kids)
    THEN [heap |-> h, refs |-> refs]
    ELSE LET r == LayoutTree(data, kids[i], h)
         IN  MapLayout(data, kids, i + 1, r.heap, Append(refs, r.ref))

\* layoutTree(node): returns the heap with the new PositionedNodes and the
\* reference of the one made for node.
LayoutTree(data, node, h) ==
    LET kids == Children(data, node)
    IN  IF Len(kids) = 0
        THEN [heap |-> Append(h, LeafNode(node)), ref |-> Len(h) + 1]
        ELSE LET m == MapLayout(data, kids, 1, h, << >>)
                 p == PlaceChildren(m.heap, m.refs, 1, 0)
                 firstX == p.heap[m.refs[1]].x
                 parentNode ==
                     [node |-> node,
                      x |-> ParentX(firstX, p.totalWidth),
                      y |-> 0,
                      width |-> ParentWidth(p.totalWidth),
                      children |-> m.refs,
                      parent |-> Undefined]
             IN  [heap |-> Append(p.heap, parentNode),
                  ref |-> Len(p.heap) + 1]

\* ----------------------------------------------------------- positionTree
\* The offsetY handed to the children of a node whose absolute y is rootY.
ChildOffsetYNoHeight(rootY) == rootY + VERTICAL_SPACING

ChildOffsetY(rootY) == rootY + NODE_HEIGHT + VERTICAL_SPACING

\* The three assignments at the head of positionTree.
MoveNodeNoParent(rec, offsetX, offsetY, parent) ==
    [rec EXCEPT !.x = @ + offsetX, !.y = @ + offsetY]

MoveNode(rec, offsetX, offsetY, parent) ==
    [rec EXCEPT !.x = @ + offsetX, !.y = @ + offsetY, !.parent = parent]

RECURSIVE PositionTree(_, _, _, _, _)
RECURSIVE PositionChildren(_, _, _, _)

\* root.children.forEach(child => positionTree(child, root.x, ..., root))
PositionChildren(h, root, i, kids) ==
    IF i > Len(kids)
    THEN h
    ELSE PositionChildren(
             PositionTree(h, kids[i], h[root].x, ChildOffsetY(h[root].y), root),
             root, i + 1, kids)

PositionTree(h, root, offsetX, offsetY, parent) ==
    LET h2 == [h EXCEPT ![root] = MoveNode(@, offsetX, offsetY, parent)]
    IN  PositionChildren(h2, root, 1, h2[root].children)

\* ------------------------------------------- old component: fetch handler
\* .then((jsonData) => { const layouted = layoutTree(jsonData); ...
LayoutStep ==
    /\ pc \in {"idle", "positioned"}
    /\ \E data \in Trees :
          LET r == LayoutTree(data, 1, << >>)
          IN  /\ jsonData' = data
              /\ heap' = r.heap
              /\ layouted' = r.ref
    /\ pc' = "layouted"
    /\ anchor' = << 0, 0 >>
    /\ UNCHANGED <<rootLayout>>
    /\ UNCHANGED flowVars

\* ... positionTree(layouted, screenCenterX, 50); setRootLayout(layouted) })
PositionStep ==
    /\ pc = "layouted"
    /\ \E offsetX \in OffsetXs, offsetY \in OffsetYs :
          /\ heap' = PositionTree(heap, layouted, offsetX, offsetY, Undefined)
          /\ anchor' = << offsetX, offsetY >>
    /\ rootLayout' = layouted
    /\ pc' = "positioned"
    /\ UNCHANGED <<jsonData, layouted>>
    /\ UNCHANGED flowVars

\* ------------------------------------------- current component: the map
\* String(node.id)
NodeKey(id) == ToString(id)

\* initialMap: every id registered, only the root true
InitialMap(data) == [id \in DOMAIN data |-> id = 1]

\* expandedMap[node.id] ?? false
IsExpanded(map, id) == IF id \in DOMAIN map THEN map[id] ELSE FALSE

\* setExpandedMap(prev => ({...prev, [nodeId]: !prev[nodeId]}))
ToggledAlwaysTrue(prev, nodeId) ==
    [id \in DOMAIN prev \cup {nodeId} |->
        IF id = nodeId THEN TRUE ELSE prev[id]]

Toggled(prev, nodeId) ==
    [id \in DOMAIN prev \cup {nodeId} |->
        IF id = nodeId THEN ~IsExpanded(prev, nodeId) ELSE prev[id]]

\* ---------------------------------------------------------- buildFlowData
\* The children traverse descends into: if (node.children && isExpanded)
DescendedChildrenAlways(data, node, isExpanded) == Children(data, node)

DescendedChildren(data, node, isExpanded) ==
    IF isExpanded THEN Children(data, node) ELSE << >>

FlowNode(data, node, isExpanded) ==
    [id |-> NodeKey(node),
     expanded |-> isExpanded,
     hasChildren |-> Len(Children(data, node)) > 0]

FlowEdge(node, child) ==
    [source |-> NodeKey(node), target |-> NodeKey(child)]

RECURSIVE Traverse(_, _, _, _)
RECURSIVE TraverseChildren(_, _, _, _, _, _)

\* node.children.forEach(child => { newEdges.push(...); traverse(child) })
TraverseChildren(data, map, node, kids, i, acc) ==
    IF i > Len(kids)
    THEN acc
    ELSE LET pushed == [acc EXCEPT
                           !.newEdges = Append(@, FlowEdge(node, kids[i]))]
         IN  TraverseChildren(data, map, node, kids, i + 1,
                              Traverse(data, map, kids[i], pushed))

Traverse(data, map, node, acc) ==
    LET isExpanded == IsExpanded(map, node)
        pushed == [acc EXCEPT
                      !.newNodes = Append(@, FlowNode(data, node, isExpanded))]
    IN  TraverseChildren(data, map, node,
                         DescendedChildren(data, node, isExpanded), 1, pushed)

BuildFlowData(data, map) ==
    Traverse(data, map, 1, [newNodes |-> << >>, newEdges |-> << >>])

\* ------------------------------------------------------- applyDagreLayout
\* setNode / setEdge on the module-level graph.  The coordinates computed
\* by dagre.layout belong to the library and are left out of the nodes.
ApplyDagreLayout(g, ns, es) ==
    [nodes |-> g.nodes \cup {ns[k].id : k \in DOMAIN ns},
     edges |-> g.edges \cup {<< es[k].source, es[k].target >> : k \in DOMAIN es}]

\* The effect on [rootData, expandedMap, buildFlowData].
Relayout(data, map) ==
    LET built == BuildFlowData(data, map)
    IN  /\ dagreGraph' = ApplyDagreLayout(dagreGraph, built.newNodes,
                                          built.newEdges)
        /\ nodes' = built.newNodes
        /\ edges' = built.newEdges

\* The fetch handler: setRootData, setExpandedMap, then the effect.  (When
\* the two updates are not batched the effect also runs once with the
\* empty map, which shows the root alone and adds nothing else to the
\* graph.)
FetchData ==
    /\ rootData = NoTree
    /\ \E data \in Trees :
          /\ rootData' = data
          /\ expandedMap' = InitialMap(data)
          /\ Relayout(data, InitialMap(data))
    /\ UNCHANGED layoutVars

\* A click on the button of a rendered node that has children.
ToggleNode(nodeId) ==
    /\ rootData # NoTree
    /\ \E k \in DOMAIN nodes :
          nodes[k].id = NodeKey(nodeId) /\ nodes[k].hasChildren
    /\ expandedMap' = Toggled(expandedMap, nodeId)
    /\ Relayout(rootData, Toggled(expandedMap, nodeId))
    /\ UNCHANGED rootData
    /\ UNCHANGED layoutVars

InitFlowVars ==
    /\ rootData = NoTree
    /\ expandedMap = << >>
    /\ nodes = << >>
    /\ edges = << >>
    /\ dagreGraph = [nodes |-> {}, edges |-> {}]

InitLayoutVars ==
    /\ pc = "idle"
    /\ jsonData = NoTree
    /\ heap = << >>
    /\ layouted = Undefined
    /\ anchor = << 0, 0 >>
    /\ rootLayout = Undefined

Init == InitLayoutVars /\ InitFlowVars

NextLayout == LayoutStep \/ PositionStep

SpecLayout == Init /\ [][NextLayout]_vars

NextFlow == FetchData \/ \E nodeId \in 1..MaxNodes : ToggleNode(nodeId)

SpecFlow == Init /\ [][NextFlow]_vars

\* ------------------------------------------------ layout: derived notions
Refs == DOMAIN heap

InRange(seq, v) == \E k \in DOMAIN seq : seq[k] = v

\* The PositionedNodes whose children list holds ref.
Holders(ref) == {p \in Refs : InRange(heap[p].children, ref)}

RECURSIVE PosDepth(_)
PosDepth(ref) ==
    IF Holders(ref) = {} THEN 0
    ELSE 1 + PosDepth(CHOOSE p \in Holders(ref) : TRUE)

RefOf(id) == CHOOSE r \in Refs : heap[r].node = id

FirstChild(p) == heap[p].children[1]
LastChild(p) == heap[p].children[Len(heap[p].children)]

LevelStep == NODE_HEIGHT + VERTICAL_SPACING

\* R = 1 with children [A = 2, B = 3]; A with children [A1 = 4, A2 = 5].
ScenarioTree == << 0, 1, 1, 2, 2 >>

\* ---------------------------------------------------------- layout claims

\* C1: after layoutTree and positionTree, the horizontal centre of every
\* node with children (x + NODE_WIDTH/2) is the midpoint of
\* [firstChild.x, lastChild.x + lastChild.width].
C1_ParentCentered ==
    pc = "positioned" =>
        \A p \in Refs :
            Len(heap[p].children) > 0 =>
                2 * (heap[p].x + NODE_WIDTH \div 2) =
                    heap[FirstChild(p)].x + heap[LastChild(p)].x
                        + heap[LastChild(p)].width

\* C2: after layoutTree and positionTree, the root sits at the anchor:
\* root.x = offsetX and root.y = offsetY.
C2_RootAtAnchor ==
    pc = "positioned" =>
        /\ heap[layouted].x = anchor[1]
        /\ heap[layouted].y = anchor[2]

\* C3: after the two passes every node at depth d has
\* y = rootY + d * (NODE_HEIGHT + VERTICAL_SPACING).
C3_DepthAlignment ==
    pc = "positioned" =>
        \A r \in Refs : heap[r].y = anchor[2] + PosDepth(r) * LevelStep

C3_Witness ==
    /\ pc = "positioned"
    /\ anchor[2] = 50
    /\ \E r, s \in Refs : r # s /\ PosDepth(r) = 2 /\ PosDepth(s) = 2

\* C4: after layoutTree, and still after positionTree, adjacent children
\* (a, b) of every node satisfy b.x >= a.x + a.width + HORIZONTAL_SPACING.
C4_SiblingGap ==
    pc \in {"layouted", "positioned"} =>
        \A p \in Refs :
            \A i \in 1..(Len(heap[p].children) - 1) :
                LET a == heap[p].children[i]
                    b == heap[p].children[i + 1]
                IN  heap[b].x >= heap[a].x + heap[a].width + HORIZONTAL_SPACING

C4_Witness ==
    /\ pc = "positioned"
    /\ anchor[1] = 500
    /\ \E p \in Refs :
          /\ Len(heap[p].children) >= 2
          /\ heap[FirstChild(p)].width > NODE_WIDTH

\* C5: the positioned tree is isomorphic to the input tree (same node
\* count, same edges, same child order), and after positionTree the parent
\* reference of a node is the node whose children list holds it
\* (undefined for the root).
C5_Isomorphic ==
    pc \in {"layouted", "positioned"} =>
        /\ Len(heap) = Len(jsonData)
        /\ \A id \in DOMAIN jsonData : \E r \in Refs : heap[r].node = id
        /\ heap[layouted].node = 1
        /\ \A r \in Refs :
              /\ Len(heap[r].children) = Len(Children(jsonData, heap[r].node))
              /\ \A k \in DOMAIN heap[r].children :
                    heap[heap[r].children[k]].node =
                        Children(jsonData, heap[r].node)[k]
        /\ pc = "positioned" =>
              \A r \in Refs :
                  IF r = layouted
                  THEN heap[r].parent = Undefined
                  ELSE Holders(r) = {heap[r].parent}

C5_Witness ==
    /\ pc = "positioned"
    /\ \E r \in Refs :
          /\ PosDepth(r) = 2
          /\ heap[r].parent # Undefined
          /\ Len(heap[heap[r].parent].children) >= 2

\* C8 as stated: in the scenario tree with anchor (500, 50), relative
\* A1.x = 0, A2.x = 280, A.x = 20, B.x = 360; absolute R.y = 50, A.y = 210,
\* A1.y = A2.y = 310.
C8_ScenarioAsStated ==
    /\ (pc = "layouted" /\ jsonData = ScenarioTree) =>
          /\ heap[RefOf(4)].x = 0
          /\ heap[RefOf(5)].x = 280
          /\ heap[RefOf(2)].x = 20
          /\ heap[RefOf(3)].x = 360
    /\ (pc = "positioned" /\ jsonData = ScenarioTree
            /\ anchor = << 500, 50 >>) =>
          /\ heap[RefOf(1)].y = 50
          /\ heap[RefOf(2)].y = 210
          /\ heap[RefOf(4)].y = 310
          /\ heap[RefOf(5)].y = 310

\* C8 amended: in the scenario tree with anchor (500, 50), relative
\* A1.x = 0, A2.x = 280; layoutTree(A) returns x = 520/2 - 240/2 = 140 and
\* width 520, and as the first child of R, A is placed at relative x = 0;
\* B is placed at relative x = 520 + 40 = 560; absolute R.y = 50,
\* A.y = 210 and A1.y = A2.y = 50 + 2 * 160 = 370.
C8_Scenario ==
    /\ (pc = "layouted" /\ jsonData = ScenarioTree) =>
          /\ heap[RefOf(4)].x = 0
          /\ heap[RefOf(5)].x = 280
          /\ LET a == LayoutTree(ScenarioTree, 2, << >>)
             IN  a.heap[a.ref].x = 140 /\ a.heap[a.ref].width = 520
          /\ heap[RefOf(2)].x = 0
          /\ heap[RefOf(2)].width = 520
          /\ heap[RefOf(3)].x = 560
    /\ (pc = "positioned" /\ jsonData = ScenarioTree
            /\ anchor = << 500, 50 >>) =>
          /\ heap[RefOf(1)].y = 50
          /\ heap[RefOf(2)].y = 210
          /\ heap[RefOf(4)].y = 370
          /\ heap[RefOf(5)].y = 370

C8_Witness ==
    /\ pc = "positioned"
    /\ jsonData = ScenarioTree
    /\ anchor = << 500, 50 >>

\* C9: after the two passes, two distinct nodes at the same depth never
\* overlap, siblings or not: the one to the right starts at least
\* NODE_WIDTH + HORIZONTAL_SPACING after the one to the left.
C9_LevelNoOverlap ==
    pc = "positioned" =>
        \A p, q \in Refs :
            (p # q /\ PosDepth(p) = PosDepth(q)) =>
                \/ heap[q].x >= heap[p].x + NODE_WIDTH + HORIZONTAL_SPACING
                \/ heap[p].x >= heap[q].x + NODE_WIDTH + HORIZONTAL_SPACING

\* two cousins, the left one's parent being wider than its own box
C9_Witness ==
    /\ pc = "positioned"
    /\ \E p, q \in Refs :
          /\ p # q
          /\ PosDepth(p) = 2
          /\ PosDepth(q) = 2
          /\ heap[p].parent # heap[q].parent
          /\ heap[heap[p].parent].width > NODE_WIDTH
          /\ heap[p].x < heap[q].x

\* -------------------------------------------------- flow: derived notions
RECURSIVE AncestorsExpanded(_, _, _)
\* every proper ancestor of node is marked expanded
AncestorsExpanded(data, map, node) ==
    IF data[node] = 0 THEN TRUE
    ELSE IsExpanded(map, data[node])
            /\ AncestorsExpanded(data, map, data[node])

VisibleIds == {id \in DOMAIN rootData :
                  AncestorsExpanded(rootData, expandedMap, id)}

ShownKeys == {nodes[k].id : k \in DOMAIN nodes}
ShownEdges == {<< edges[k].source, edges[k].target >> : k \in DOMAIN edges}

\* ------------------------------------------------------------ flow claims

\* C6: after the initial map and any toggles, the nodes built by
\* buildFlowData are exactly the nodes all of whose proper ancestors are
\* marked expanded, and the edges are exactly the parent/child edges
\* between those nodes.
C6_VisibleTree ==
    rootData # NoTree =>
        /\ ShownKeys = {NodeKey(id) : id \in VisibleIds}
        /\ Len(nodes) = Cardinality(VisibleIds)
        /\ ShownEdges = {<< NodeKey(rootData[id]), NodeKey(id) >> :
                            id \in VisibleIds \ {1}}
        /\ Len(edges) = Cardinality(VisibleIds \ {1})

\* the root was collapsed while a descendant is still marked expanded
C6_Witness ==
    /\ rootData # NoTree
    /\ ~expandedMap[1]
    /\ Len(nodes) = 1
    /\ \E id \in DOMAIN rootData : id # 1 /\ expandedMap[id]

\* C7: on every relayout the graph dagre works on holds exactly the nodes
\* and edges of the current visible tree.
C7_GraphIsVisibleTree ==
    rootData # NoTree =>
        /\ dagreGraph.nodes = ShownKeys
        /\ dagreGraph.edges = ShownEdges

\* C10: toggleNode(id) flips the flag of id and nothing else, and two
\* toggleNode(id) in a row give back the same map and the same nodes and
\* edges.
C10_ToggleTwice ==
    rootData # NoTree =>
        \A id \in DOMAIN rootData :
            LET once == Toggled(expandedMap, id)
                twice == Toggled(once, id)
            IN  /\ DOMAIN once = DOMAIN expandedMap
                /\ once[id] = ~expandedMap[id]
                /\ \A other \in DOMAIN expandedMap \ {id} :
                      once[other] = expandedMap[other]
                /\ twice = expandedMap
                /\ BuildFlowData(rootData, twice).newNodes = nodes
                /\ BuildFlowData(rootData, twice).newEdges = edges

\* a shown node below the root is collapsed while one of its children is
\* still marked expanded
C10_Witness ==
    /\ rootData # NoTree
    /\ \E id \in DOMAIN rootData :
          /\ id # 1
          /\ rootData[id] # 1
          /\ expandedMap[id]
          /\ ~expandedMap[rootData[id]]
          /\ NodeKey(rootData[id]) \in ShownKeys

====
